---- MODULE Spec2Model ----
(***************************************************************************)
(* A model of the e-jerk/grep GNU backend glue:                            *)
(*   src/src/gnu/gnulib_stubs.c     the xmalloc family and xpalloc         *)
(*   src/src/gnu/gnu_grep_wrapper.c the fixed-string / regex wrapper       *)
(*   src/src/gnu/pcre2_wrapper.c    the PCRE2 wrapper                      *)
(* One action is one call of an exported function; pcre2_find_all is split *)
(* into its loop iterations.  Results of the last call are kept in a       *)
(* record per component so that properties of a call are state predicates. *)
(***************************************************************************)
EXTENDS Integers, Sequences, FiniteSets, TLC

VARIABLES
    proc,         \* "running" | "aborted": whether abort() has ended the process
    pn,           \* *pn: element count of the buffer grown by xpalloc
    xp,           \* the last xpalloc call
    initialized,  \* gnu_grep_init's static flag
    match_icase,  \* the global match_icase
    gctx,         \* the GnuSearchContext* the caller holds
    gcall,        \* the last gnu_grep_* call
    pctx,         \* the PcreContext* the caller holds
    pheap,        \* allocations of the PCRE wrapper that are live
    pcall         \* the last pcre2_* call (a pcre2_find_all scan in progress)

vars == <<proc, pn, xp, initialized, match_icase, gctx, gcall, pctx, pheap, pcall>>

allocVars == <<pn, xp>>
gnuVars == <<initialized, match_icase, gctx, gcall>>
pcreVars == <<pctx, pheap, pcall>>

\* The library is synchronous and single-threaded: a call starts only when
\* the process is alive and no other call is in progress.
Idle ==
    /\ proc = "running"
    /\ xp.op = "none"
    /\ gcall.op = "none"
    /\ pcall.op = "none"

(***************************************************************************)
(* Bounds of the model.                                                    *)
(***************************************************************************)
\* width in bits of size_t and ptrdiff_t (64 in the build, scaled down)
SizeBits == 4
\* largest element size s passed to xpalloc
MaxElemSize == 3
\* longest text handed to gnu_grep_execute
MaxTextLen == 3
\* longest pattern handed to gnu_grep_compile_fixed
MaxPatLen == 2
\* longest subject handed to pcre2_find_first / pcre2_find_all
MaxSubjectLen == 3
\* largest max_results handed to pcre2_find_all
MaxResults == 4

(***************************************************************************)
(* gnulib_stubs.c: machine integers                                        *)
(***************************************************************************)
SIZE_MAX == 2 ^ SizeBits - 1

PTRDIFF_MAX == 2 ^ (SizeBits - 1) - 1

\* size_t arithmetic is modulo 2^SizeBits
Wrap(x) == x % (SIZE_MAX + 1)

Max(a, b) == IF a >= b THEN a ELSE b

(***************************************************************************)
(* gnulib_stubs.c: xalloc_die, xrealloc                                    *)
(***************************************************************************)
\* xalloc_die prints "memory exhausted" and calls abort(): the process ends.
xalloc_die == "aborted"

\* xrealloc(p, n) with realloc succeeding (ok) or returning NULL:
\* NULL for a non-zero size goes to xalloc_die.
xrealloc(n, ok) == IF ~ok /\ n # 0 THEN xalloc_die ELSE "running"

\* xmalloc(n): malloc, and xalloc_die when it returns NULL for n # 0.
xmalloc(n, ok) == IF ~ok /\ n # 0 THEN xalloc_die ELSE "running"

(***************************************************************************)
(* gnulib_stubs.c: xpalloc                                                 *)
(***************************************************************************)
\* faulty variant: the minimum increment is ignored
xpalloc_n_incr_nomin(n, n_incr_min, n_max) ==
    IF n_max >= 0 /\ Wrap(n + n) > n_max THEN Wrap(n_max - n) ELSE n

\* n_incr after the two adjustments of lines 212-220
xpalloc_n_incr(n, n_incr_min, n_max) ==
    LET n_incr == IF n < n_incr_min THEN n_incr_min ELSE n
    IN  IF n_max >= 0 /\ Wrap(n + n_incr) > n_max
        THEN Wrap(n_max - n)
        ELSE n_incr

\* new_n = n + n_incr, in size_t
xpalloc_new_n(n, n_incr_min, n_max) ==
    Wrap(n + xpalloc_n_incr(n, n_incr_min, n_max))

\* the byte size handed to xrealloc: new_n * s, in size_t
xpalloc_bytes(new_n, s) == Wrap(new_n * s)

\* One call xpalloc(pa, pn, n_incr_min, n_max, s); ok is realloc's outcome.
\* *pn is written before xrealloc is called.
xpalloc_call(caller, n_incr_min, n_max, s, ok) ==
    LET n == pn
        new_n == xpalloc_new_n(n, n_incr_min, n_max)
        bytes == xpalloc_bytes(new_n, s)
    IN  /\ pn' = new_n
        /\ xp' = [op |-> caller, n |-> n, n_incr_min |-> n_incr_min,
                  n_max |-> n_max, s |-> s, new_n |-> new_n,
                  realloc_called |-> TRUE, bytes |-> bytes,
                  overflow_error |-> FALSE]
        /\ proc' = xrealloc(bytes, ok)
        /\ UNCHANGED <<gnuVars, pcreVars>>

xpalloc ==
    /\ Idle
    /\ \E n_incr_min \in 0..SIZE_MAX, n_max \in (-1)..PTRDIFF_MAX,
       s \in 1..MaxElemSize, ok \in BOOLEAN :
        xpalloc_call("xpalloc", n_incr_min, n_max, s, ok)

x2realloc ==
    /\ Idle
    /\ \E ok \in BOOLEAN : xpalloc_call("x2realloc", 1, -1, 1, ok)

x2nrealloc ==
    /\ Idle
    /\ \E s \in 1..MaxElemSize, ok \in BOOLEAN :
        xpalloc_call("x2nrealloc", 1, -1, s, ok)

\* the call returns to its caller, which goes on with the grown buffer
xpalloc_return ==
    /\ proc = "running"
    /\ xp.op # "none"
    /\ xp' = [op |-> "none"]
    /\ UNCHANGED <<proc, pn, gnuVars, pcreVars>>


(***************************************************************************)
(* gnu_grep_wrapper.c: bytes, texts and patterns                           *)
(***************************************************************************)
\* char eolbyte = '\n'
eolbyte == "\n"

PatternBytes == {"a", "A", "b"}

TextBytes == PatternBytes \cup {eolbyte}

SeqsUpTo(S, n) == UNION {[1..k -> S] : k \in 0..n}

Texts == SeqsUpTo(TextBytes, MaxTextLen)

Patterns == SeqsUpTo(PatternBytes, MaxPatLen)

\* case folding of one byte, as the engine's translation table does it
Fold(c) == IF c = "A" THEN "a" ELSE c

ByteEq(c, d, icase) == IF icase THEN Fold(c) = Fold(d) ELSE c = d

\* P occurs in T at 0-based offset i
OccursAt(T, P, i, icase) ==
    /\ i + Len(P) <= Len(T)
    /\ \A k \in 1..Len(P) : ByteEq(T[i + k], P[k], icase)

Occurrences(T, P, icase) == {i \in 0..Len(T) : OccursAt(T, P, i, icase)}

SetMin(S) == CHOOSE x \in S : \A y \in S : x <= y

SetMax(S) == CHOOSE x \in S : \A y \in S : x >= y

\* offset of the first byte of the line that holds offset i
LineStart(T, i) ==
    LET nl == {k \in 1..i : T[k] = eolbyte}
    IN  IF nl = {} THEN 0 ELSE SetMax(nl)

\* offset just after the line terminator of the line that holds a hit ending
\* at offset j (the end of the buffer for an unterminated last line)
LineEnd(T, j) ==
    LET nl == {k \in (j + 1)..Len(T) : T[k] = eolbyte}
    IN  IF nl = {} THEN Len(T) ELSE SetMin(nl)

(***************************************************************************)
(* The search engine behind the wrapper (Fcompile, GEAcompile, Fexecute,   *)
(* EGexecute): line-oriented, allocating through the xmalloc family.       *)
(***************************************************************************)
\* Fcompile(pattern_with_nl, pattern_len + 1, 0, false): the keyword is the
\* text before the newline sentinel, matched under the global match_icase.
Fcompile(pattern, icase) ==
    [null |-> FALSE, kind |-> "kwset", keys |-> pattern, icase |-> icase]

\* GEAcompile(pattern, pattern_len, syntax, false)
GEAcompile(pattern, icase, extended) ==
    [null |-> FALSE, kind |-> "dfa", keys |-> pattern, icase |-> icase,
     extended |-> extended]

\* Fexecute(compiled, text, text_len, &match_size, NULL): the offset of the
\* line holding the first occurrence and that line's length, or -1.
Fexecute(compiled, T) ==
    LET occ == Occurrences(T, compiled.keys, compiled.icase)
    IN  IF occ = {}
        THEN [result |-> -1, match_size |-> 0]
        ELSE LET i == SetMin(occ)
                 ls == LineStart(T, i)
                 le == LineEnd(T, i + Len(compiled.keys))
             IN  [result |-> ls, match_size |-> le - ls]

\* EGexecute(compiled, text, text_len, &match_size, NULL): no match, or the
\* line holding some hit [i, j) that does not cross a line terminator.
EGexecute(T) ==
    LET hits == {h \in (0..Len(T)) \X (0..Len(T)) :
                    /\ h[1] <= h[2]
                    /\ \A k \in (h[1] + 1)..h[2] : T[k] # eolbyte}
    IN  {[result |-> -1, match_size |-> 0]} \cup
        {[result |-> LineStart(T, h[1]),
          match_size |-> LineEnd(T, h[2]) - LineStart(T, h[1])] : h \in hits}

\* An allocation inside the engine: it goes through xmalloc, so a failed
\* malloc ends in xalloc_die.  engine is "ok", "null" or "nomem".
engine_alloc(engine) == xmalloc(1, engine # "nomem")

(***************************************************************************)
(* gnu_grep_wrapper.c: the wrapper                                         *)
(***************************************************************************)
NullCtx == [null |-> TRUE]

\* What a compile call leaves behind: the process state, the handle returned
\* and the record of the call.  m_ctx: the wrapper's own mallocs succeeded.
\* engine: "ok", "null" (the engine returned NULL) or "nomem" (an allocation
\* inside the engine failed).  Nothing in the sources calls longjmp, so the
\* checkpoint set by setjmp(error_jmp) is never resumed: when xalloc_die
\* aborts, the call does not return.
compile_outcome(op, compiled, is_fixed, m_ctx, engine) ==
    IF ~m_ctx
    THEN [proc |-> "running", ctx |-> NullCtx,
          call |-> [op |-> op, ret_null |-> TRUE, engine_called |-> FALSE,
                    engine_fatal |-> FALSE, returned |-> TRUE]]
    ELSE IF engine_alloc(engine) # "running"
    THEN [proc |-> engine_alloc(engine), ctx |-> gctx,
          call |-> [op |-> op, ret_null |-> TRUE, engine_called |-> TRUE,
                    engine_fatal |-> TRUE, returned |-> FALSE]]
    ELSE IF engine = "null"
    THEN [proc |-> "running", ctx |-> NullCtx,
          call |-> [op |-> op, ret_null |-> TRUE, engine_called |-> TRUE,
                    engine_fatal |-> FALSE, returned |-> TRUE]]
    ELSE [proc |-> "running",
          ctx |-> [null |-> FALSE, compiled |-> compiled, is_fixed |-> is_fixed],
          call |-> [op |-> op, ret_null |-> FALSE, engine_called |-> TRUE,
                    engine_fatal |-> FALSE, returned |-> TRUE]]

gnu_grep_compile_fixed ==
    /\ Idle
    /\ \E pattern \in Patterns, case_insensitive \in BOOLEAN,
       m_nl \in BOOLEAN, m_ctx \in BOOLEAN, engine \in {"ok", "null", "nomem"} :
        LET out == compile_outcome("compile_fixed",
                                   Fcompile(pattern, case_insensitive), TRUE,
                                   m_nl /\ m_ctx, engine)
        IN  /\ initialized' = TRUE
            /\ match_icase' = case_insensitive
            /\ gctx' = out.ctx
            /\ gcall' = out.call
            /\ proc' = out.proc
            /\ UNCHANGED <<allocVars, pcreVars>>

gnu_grep_compile_regex ==
    /\ Idle
    /\ \E pattern \in Patterns, case_insensitive \in BOOLEAN, extended \in BOOLEAN,
       m_ctx \in BOOLEAN, engine \in {"ok", "null", "nomem"} :
        LET out == compile_outcome("compile_regex",
                                   GEAcompile(pattern, case_insensitive, extended),
                                   FALSE, m_ctx, engine)
        IN  /\ initialized' = TRUE
            /\ match_icase' = case_insensitive
            /\ gctx' = out.ctx
            /\ gcall' = out.call
            /\ proc' = out.proc
            /\ UNCHANGED <<allocVars, pcreVars>>

\* gnu_grep_execute(ctx, text, text_len, match_start).  match_start in the
\* record is NotWritten when *match_start was not assigned.
NotWritten == -1

execute_outcome(h, text_null, text, text_len, want_start, engine, reply) ==
    IF h.null \/ h.compiled.null \/ text_null \/ text_len <= 0
    THEN [proc |-> "running",
          call |-> [op |-> "execute", ret |-> -2, match_start |-> NotWritten,
                    engine_called |-> FALSE, engine_fatal |-> FALSE,
                    returned |-> TRUE, ctx |-> h, text |-> text,
                    text_null |-> text_null, text_len |-> text_len]]
    ELSE IF engine_alloc(engine) # "running"
    THEN [proc |-> engine_alloc(engine),
          call |-> [op |-> "execute", ret |-> -2, match_start |-> NotWritten,
                    engine_called |-> TRUE, engine_fatal |-> TRUE,
                    returned |-> FALSE, ctx |-> h, text |-> text,
                    text_null |-> text_null, text_len |-> text_len]]
    ELSE [proc |-> "running",
          call |-> [op |-> "execute",
                    ret |-> IF reply.result < 0 THEN -1 ELSE reply.match_size,
                    match_start |-> IF reply.result >= 0 /\ want_start
                                    THEN reply.result ELSE NotWritten,
                    engine_called |-> TRUE, engine_fatal |-> FALSE,
                    returned |-> TRUE, ctx |-> h, text |-> text,
                    text_null |-> text_null, text_len |-> text_len]]

\* the engine's answers for a valid call
execute_replies(h, text) ==
    IF h.null THEN {[result |-> -1, match_size |-> 0]}
    ELSE IF h.is_fixed THEN {Fexecute(h.compiled, text)}
    ELSE EGexecute(text)

gnu_grep_execute ==
    /\ Idle
    /\ \E h \in {NullCtx, gctx}, text \in Texts, text_null \in BOOLEAN,
       want_start \in BOOLEAN, engine \in {"ok", "nomem"} :
      \E text_len \in {-1, 0, Len(text)}, reply \in execute_replies(h, text) :
        LET out == execute_outcome(h, text_null, text, text_len, want_start,
                                   engine, reply)
        IN  /\ text_null => text = <<>>
            /\ gcall' = out.call
            /\ proc' = out.proc
            /\ UNCHANGED <<initialized, match_icase, gctx, allocVars, pcreVars>>

\* gnu_grep_free(ctx): frees the context (the compiled pattern is leaked)
gnu_grep_free ==
    /\ Idle
    /\ ~gctx.null
    /\ gctx' = NullCtx
    /\ gcall' = [op |-> "free"]
    /\ UNCHANGED <<proc, initialized, match_icase, allocVars, pcreVars>>

\* the call returns to its caller, which has read the result
gnu_grep_return ==
    /\ proc = "running"
    /\ gcall.op # "none"
    /\ gcall' = [op |-> "none"]
    /\ UNCHANGED <<proc, initialized, match_icase, gctx, allocVars, pcreVars>>

(***************************************************************************)
(* pcre2_wrapper.c: the PCRE2 library as the wrapper sees it               *)
(***************************************************************************)
\* status codes of pcre2.h
PCRE2_ERROR_NOMATCH == -1

PCRE2_ERROR_BADOFFSET == -33

PCRE2_ERROR_MATCHLIMIT == -47

\* a pcre2_compile error code (missing closing parenthesis)
PCRE2_COMPILE_ERROR == 114

NullP == [null |-> TRUE]

\* the blocks a complete handle owns
AllBlocks == {"ctx", "code", "match_data", "match_context"}

\* pcre2_compile(pattern, ...): a compiled code, or NULL with the error code
\* and offset stored through the two out-parameters.  Two kinds of compiled
\* pattern are told apart: "empty", which matches the empty string at every
\* offset, and "other", any other pattern.
pcre2_compile ==
    {[null |-> FALSE, pat |-> k, error_code |-> 0, error_offset |-> 0] :
        k \in {"empty", "other"}} \cup
    {[null |-> TRUE, pat |-> "none", error_code |-> PCRE2_COMPILE_ERROR,
      error_offset |-> o] : o \in 0..MaxPatLen}

\* pcre2_match(code, text, text_len, start_offset, 0, match_data, mcontext):
\* the set of answers [rc, ov0, ov1] the library may give.  An offset past
\* the subject is PCRE2_ERROR_BADOFFSET; otherwise a resource-limit error, no
\* match, or a match offset <= ov0 <= ov1 <= text_len.
pcre2_match(code, text_len, start_offset) ==
    IF start_offset > text_len
    THEN {[rc |-> PCRE2_ERROR_BADOFFSET, ov0 |-> 0, ov1 |-> 0]}
    ELSE {[rc |-> PCRE2_ERROR_MATCHLIMIT, ov0 |-> 0, ov1 |-> 0]} \cup
         (IF code.pat = "empty"
          THEN {[rc |-> 1, ov0 |-> start_offset, ov1 |-> start_offset]}
          ELSE {[rc |-> PCRE2_ERROR_NOMATCH, ov0 |-> 0, ov1 |-> 0]} \cup
               {[rc |-> 1, ov0 |-> se[1], ov1 |-> se[2]] :
                    se \in {x \in (start_offset..text_len) \X
                                  (start_offset..text_len) : x[1] <= x[2]}})

(***************************************************************************)
(* pcre2_wrapper.c: pcre2_compile_pattern, pcre2_free_context              *)
(***************************************************************************)
\* faulty variant: the handle is returned although match data or context is missing
pcre2_compile_pattern_norollback(m_ctx, cr, md_ok, mc_ok) ==
    IF ~m_ctx THEN [ctx |-> NullP, heap |-> {}]
    ELSE IF cr.null
    THEN [ctx |-> [null |-> FALSE, code |-> [null |-> TRUE],
                   match_data |-> FALSE, match_context |-> FALSE,
                   error_code |-> cr.error_code,
                   error_offset |-> cr.error_offset],
          heap |-> {"ctx"}]
    ELSE [ctx |-> [null |-> FALSE, code |-> [null |-> FALSE, pat |-> cr.pat],
                   match_data |-> md_ok, match_context |-> mc_ok,
                   error_code |-> cr.error_code,
                   error_offset |-> cr.error_offset],
          heap |-> {"ctx", "code"}
                   \cup (IF md_ok THEN {"match_data"} ELSE {})
                   \cup (IF mc_ok THEN {"match_context"} ELSE {})]

\* pcre2_compile_pattern: the handle returned and the blocks left allocated.
\* m_ctx: malloc of the context succeeded; cr: pcre2_compile's answer;
\* md_ok, mc_ok: the match data and the match context were created.
pcre2_compile_pattern_result(m_ctx, cr, md_ok, mc_ok) ==
    IF ~m_ctx THEN [ctx |-> NullP, heap |-> {}]
    ELSE IF cr.null
    THEN [ctx |-> [null |-> FALSE, code |-> [null |-> TRUE],
                   match_data |-> FALSE, match_context |-> FALSE,
                   error_code |-> cr.error_code,
                   error_offset |-> cr.error_offset],
          heap |-> {"ctx"}]
    ELSE IF ~md_ok \/ ~mc_ok
    THEN [ctx |-> NullP, heap |-> {}]
    ELSE [ctx |-> [null |-> FALSE, code |-> [null |-> FALSE, pat |-> cr.pat],
                   match_data |-> TRUE, match_context |-> TRUE,
                   error_code |-> cr.error_code,
                   error_offset |-> cr.error_offset],
          heap |-> AllBlocks]

pcre2_compile_pattern ==
    /\ Idle
    /\ pctx.null
    /\ \E m_ctx \in BOOLEAN, cr \in pcre2_compile,
          md_ok \in BOOLEAN, mc_ok \in BOOLEAN :
        LET out == pcre2_compile_pattern_result(m_ctx, cr, md_ok, mc_ok)
        IN  /\ pctx' = out.ctx
            /\ pheap' = out.heap
            /\ pcall' = [op |-> "compile"]
            /\ UNCHANGED <<proc, allocVars, gnuVars>>

\* pcre2_is_valid(ctx)
pcre2_is_valid(ctx) == ~ctx.null /\ ~ctx.code.null

\* pcre2_free_context(ctx): every block that is present is freed
pcre2_free_context ==
    /\ Idle
    /\ ~pctx.null
    /\ pheap' = pheap \ ({"ctx"}
                  \cup (IF pctx.match_context THEN {"match_context"} ELSE {})
                  \cup (IF pctx.match_data THEN {"match_data"} ELSE {})
                  \cup (IF ~pctx.code.null THEN {"code"} ELSE {}))
    /\ pctx' = NullP
    /\ pcall' = [op |-> "free"]
    /\ UNCHANGED <<proc, allocVars, gnuVars>>

(***************************************************************************)
(* pcre2_wrapper.c: pcre2_find_first                                       *)
(***************************************************************************)
\* a PcreMatch the callee has not assigned
Unassigned == [valid |-> NotWritten, start |-> NotWritten, end |-> NotWritten]

\* faulty variant: the output pointer is not checked
pcre2_rejects_noout(h, text_null, out_null) ==
    h.null \/ h.code.null \/ text_null

\* the null checks of pcre2_find_first and pcre2_find_all
pcre2_rejects(h, text_null, out_null) ==
    h.null \/ h.code.null \/ text_null \/ out_null

\* the return value and *result of pcre2_find_first for the answer m
find_first_outcome(m) ==
    IF m.rc < 0
    THEN [ret |-> IF m.rc = PCRE2_ERROR_NOMATCH THEN 0 ELSE m.rc,
          result |-> [valid |-> 0, start |-> NotWritten, end |-> NotWritten]]
    ELSE [ret |-> 1, result |-> [valid |-> 1, start |-> m.ov0, end |-> m.ov1]]

pcre2_find_first ==
    /\ Idle
    /\ \E h \in {NullP, pctx}, text_null \in BOOLEAN, result_null \in BOOLEAN,
          text_len \in 0..MaxSubjectLen, start_offset \in 0..(MaxSubjectLen + 1) :
        IF pcre2_rejects(h, text_null, result_null)
        THEN /\ pcall' = [op |-> "find_first", h |-> h, text_null |-> text_null,
                          result_null |-> result_null, text_len |-> text_len,
                          start_offset |-> start_offset, ret |-> -1,
                          result |-> Unassigned, engine_called |-> FALSE,
                          rejected |-> TRUE]
             /\ UNCHANGED <<proc, pctx, pheap, allocVars, gnuVars>>
        ELSE \E m \in pcre2_match(h.code, text_len, start_offset) :
             /\ pcall' = [op |-> "find_first", h |-> h, text_null |-> text_null,
                          result_null |-> result_null, text_len |-> text_len,
                          start_offset |-> start_offset,
                          ret |-> find_first_outcome(m).ret,
                          result |-> find_first_outcome(m).result,
                          engine_called |-> TRUE, rejected |-> FALSE]
             /\ UNCHANGED <<proc, pctx, pheap, allocVars, gnuVars>>

(***************************************************************************)
(* pcre2_wrapper.c: pcre2_find_all, one action per loop iteration          *)
(***************************************************************************)
\* faulty variant: an empty match does not advance the offset
find_all_next_offset_stuck(ov0, ov1) == ov1

\* "Move past this match": the next search offset
find_all_next_offset(ov0, ov1) == IF ov0 = ov1 THEN ov1 + 1 ELSE ov1

\* faulty variant: an engine error ends the scan like a no-match
find_all_negative_ret_count(rc, count) == count

\* the return value when pcre2_match answers rc < 0
find_all_negative_ret(rc, count) ==
    IF rc = PCRE2_ERROR_NOMATCH THEN count ELSE rc

\* the loop condition
find_all_continues(c) ==
    c.offset < c.text_len /\ c.count < c.max_results

pcre2_find_all_enter ==
    /\ Idle
    /\ \E h \in {NullP, pctx}, text_null \in BOOLEAN, results_null \in BOOLEAN,
          text_len \in 0..MaxSubjectLen, max_results \in 0..MaxResults :
        LET rej == pcre2_rejects(h, text_null, results_null)
        IN  pcall' = [op |-> "find_all", pc |-> IF rej THEN "done" ELSE "loop",
                      h |-> h, text_null |-> text_null,
                      results_null |-> results_null, text_len |-> text_len,
                      max_results |-> max_results, offset |-> 0, count |-> 0,
                      results |-> <<>>, ret |-> IF rej THEN -1 ELSE 0,
                      engine_called |-> FALSE, engine_error |-> FALSE,
                      rejected |-> rej]
    /\ UNCHANGED <<proc, pctx, pheap, allocVars, gnuVars>>

pcre2_find_all_iterate ==
    /\ proc = "running"
    /\ pcall.op = "find_all"
    /\ pcall.pc = "loop"
    /\ find_all_continues(pcall)
    /\ \E m \in pcre2_match(pcall.h.code, pcall.text_len, pcall.offset) :
        IF m.rc < 0
        THEN pcall' = [pcall EXCEPT
                !.pc = "done",
                !.ret = find_all_negative_ret(m.rc, pcall.count),
                !.engine_called = TRUE,
                !.engine_error = (m.rc # PCRE2_ERROR_NOMATCH)]
        ELSE pcall' = [pcall EXCEPT
                !.results = Append(@, [start |-> m.ov0, end |-> m.ov1,
                                       valid |-> 1]),
                !.count = @ + 1,
                !.offset = find_all_next_offset(m.ov0, m.ov1),
                !.engine_called = TRUE]
    /\ UNCHANGED <<proc, pctx, pheap, allocVars, gnuVars>>

pcre2_find_all_exit ==
    /\ proc = "running"
    /\ pcall.op = "find_all"
    /\ pcall.pc = "loop"
    /\ ~find_all_continues(pcall)
    /\ pcall' = [pcall EXCEPT !.pc = "done", !.ret = pcall.count]
    /\ UNCHANGED <<proc, pctx, pheap, allocVars, gnuVars>>

\* the call returns to its caller, which has read the result
pcre2_return ==
    /\ proc = "running"
    /\ pcall.op # "none"
    /\ pcall.op = "find_all" => pcall.pc = "done"
    /\ pcall' = [op |-> "none"]
    /\ UNCHANGED <<proc, pctx, pheap, allocVars, gnuVars>>

(***************************************************************************)
(* Initial state and specifications                                        *)
(***************************************************************************)
Init ==
    /\ proc = "running"
    /\ pn = 0
    /\ xp = [op |-> "none"]
    /\ initialized = FALSE
    /\ match_icase = FALSE
    /\ gctx = [null |-> TRUE]
    /\ gcall = [op |-> "none"]
    /\ pctx = [null |-> TRUE]
    /\ pheap = {}
    /\ pcall = [op |-> "none"]

NextAlloc == xpalloc \/ x2realloc \/ x2nrealloc \/ xpalloc_return

SpecAlloc == Init /\ [][NextAlloc]_vars

NextGnu ==
    \/ gnu_grep_compile_fixed
    \/ gnu_grep_compile_regex
    \/ gnu_grep_execute
    \/ gnu_grep_free
    \/ gnu_grep_return

SpecGnu == Init /\ [][NextGnu]_vars

NextPcre ==
    \/ pcre2_compile_pattern
    \/ pcre2_free_context
    \/ pcre2_find_first
    \/ pcre2_find_all_enter
    \/ pcre2_find_all_iterate
    \/ pcre2_find_all_exit
    \/ pcre2_return

SpecPcre == Init /\ [][NextPcre]_vars

\* the two entry points that validate their input, with what they need
NextInput ==
    \/ gnu_grep_compile_fixed
    \/ gnu_grep_execute
    \/ gnu_grep_return
    \/ pcre2_compile_pattern
    \/ pcre2_find_first
    \/ pcre2_return

SpecInput == Init /\ [][NextInput]_vars

Next == NextAlloc \/ NextGnu \/ NextPcre

Spec == Init /\ [][Next]_vars

(***************************************************************************)
(* Properties                                                              *)
(***************************************************************************)
\* the keyword of the fixed-string context of the last execute call occurs
\* in the text searched, and the call came back from the engine
FixedHit ==
    /\ gcall.op = "execute"
    /\ gcall.returned
    /\ gcall.engine_called
    /\ gcall.ctx.is_fixed
    /\ Len(gcall.ctx.compiled.keys) > 0
    /\ Occurrences(gcall.text, gcall.ctx.compiled.keys,
                   gcall.ctx.compiled.icase) # {}

\* C1: for a non-empty literal pattern P occurring in the text T,
\* gnu_grep_execute returns the length of P and sets *match_start to an
\* offset where P occurs (case-folded when case-insensitive): the span of
\* the match itself, not the offset and length of the line holding it.
C1_NarrowedSpan ==
    FixedHit =>
        /\ gcall.ret = Len(gcall.ctx.compiled.keys)
        /\ gcall.match_start # NotWritten =>
             OccursAt(gcall.text, gcall.ctx.compiled.keys, gcall.match_start,
                      gcall.ctx.compiled.icase)

\* a pcre2_find_all scan over a pattern matching the empty string everywhere
\* has ended without an engine error, with room for text_len + 1 results
EmptyScanDone ==
    /\ pcall.op = "find_all"
    /\ pcall.pc = "done"
    /\ ~pcall.rejected
    /\ pcall.h.code.pat = "empty"
    /\ ~pcall.engine_error
    /\ pcall.max_results >= pcall.text_len + 1

\* C2: for a text of length L and a pattern matching the empty string at
\* every position, pcre2_find_all with max_results >= L+1 returns exactly
\* L+1 spans, one zero-width span at each offset 0..L.
C2_EmptyMatchAtEveryOffset ==
    EmptyScanDone =>
        /\ pcall.ret = pcall.text_len + 1
        /\ Len(pcall.results) = pcall.text_len + 1
        /\ \A i \in 1..Len(pcall.results) :
             pcall.results[i].start = i - 1 /\ pcall.results[i].end = i - 1

\* the new count, or its byte size, of the last xpalloc call does not fit
XpallocOverflows ==
    /\ xp.op # "none"
    /\ \/ xp.n + xpalloc_n_incr(xp.n, xp.n_incr_min, xp.n_max) > SIZE_MAX
       \/ (xp.n + xpalloc_n_incr(xp.n, xp.n_incr_min, xp.n_max)) * xp.s
            > SIZE_MAX

\* C3: when the new element count n + n_incr, or the new count times the
\* element size, exceeds the largest size_t, xpalloc (and x2realloc,
\* x2nrealloc) fails with an overflow error before any allocation: realloc
\* is not called and *pn is left as it was.
C3_OverflowFailsEarly ==
    XpallocOverflows =>
        /\ xp.overflow_error
        /\ ~xp.realloc_called
        /\ pn = xp.n

\* C4: the count xpalloc writes back to *pn is never smaller than the count
\* it found there, whatever n_incr_min and n_max are.
C4_CountNeverDecreases ==
    xp.op # "none" => pn >= xp.n

\* the last xpalloc call has a representable result: neither the count
\* n + max(n, n_incr_min) nor the byte size of the new count overflows
XpallocRepresentable ==
    /\ xp.op # "none"
    /\ xp.n + Max(xp.n, xp.n_incr_min) <= SIZE_MAX
    /\ xp.new_n * xp.s <= SIZE_MAX

ErrorAfterMatches ==
    /\ pcall.op = "find_all"
    /\ pcall.pc = "done"
    /\ pcall.engine_error
    /\ pcall.count >= 1

\* the number of matches the caller learns from the return value
ReportedCount(c) == IF c.ret >= 0 THEN c.ret ELSE NotWritten

\* C6: when the engine fails during a pcre2_find_all scan after k >= 1
\* matches, the caller gets the failure signal and the number k of matches
\* collected before it.
C6_ErrorKeepsCount ==
    ErrorAfterMatches =>
        /\ pcall.ret < 0
        /\ ReportedCount(pcall) = pcall.count

\* C6 amended: the caller gets the engine's negative status as the return
\* value; the k spans stay written in results[0..k-1], but their number is
\* not reported.
C6_ErrorReplacesCount ==
    ErrorAfterMatches =>
        /\ pcall.ret < 0
        /\ pcall.ret # PCRE2_ERROR_NOMATCH
        /\ ReportedCount(pcall) = NotWritten
        /\ Len(pcall.results) = pcall.count
        /\ \A i \in 1..pcall.count : pcall.results[i].valid = 1

\* C6 witness: an engine error after two recorded matches
C6_Witness ==
    ErrorAfterMatches /\ pcall.count = 2 /\ pcall.ret = PCRE2_ERROR_MATCHLIMIT

\* C7: a fatal condition raised by the engine during gnu_grep_compile_fixed,
\* gnu_grep_compile_regex or gnu_grep_execute comes back as an ordinary
\* failure (NULL, or -2) and never ends the process.
C7_FatalIsRecovered ==
    (gcall.op \in {"compile_fixed", "compile_regex", "execute"}
        /\ gcall.engine_fatal) =>
        /\ proc = "running"
        /\ gcall.returned

\* the last gnu_grep_execute call had a null context, compiled pattern or
\* text, or text_len <= 0
ExecuteInvalid ==
    /\ gcall.op = "execute"
    /\ \/ gcall.ctx.null
       \/ gcall.ctx.compiled.null
       \/ gcall.text_null
       \/ gcall.text_len <= 0

\* the last pcre2_find_first call had a null or failed handle, or a null
\* text or result
FindFirstNull ==
    /\ pcall.op = "find_first"
    /\ \/ ~pcre2_is_valid(pcall.h)
       \/ pcall.text_null
       \/ pcall.result_null

\* the last pcre2_find_first call was sound but for an offset past the text
FindFirstBadOffset ==
    /\ pcall.op = "find_first"
    /\ ~FindFirstNull
    /\ pcall.start_offset > pcall.text_len

\* C8: invalid input is rejected before the engine is called:
\* gnu_grep_execute returns -2 for a null context, pattern or text or
\* text_len <= 0; pcre2_find_first returns an error for a null handle, text
\* or result and for start_offset > text_len.
C8_RejectedBeforeEngine ==
    /\ ExecuteInvalid => gcall.ret = -2 /\ ~gcall.engine_called
    /\ (FindFirstNull \/ FindFirstBadOffset) =>
         pcall.ret < 0 /\ ~pcall.engine_called

\* C8 amended: as C8 for gnu_grep_execute and for the null checks of
\* pcre2_find_first; start_offset > text_len is not checked by the wrapper:
\* the engine is called and its bad-offset status is the error returned,
\* with the result marked not valid.
C8_RejectedNullsBeforeEngine ==
    /\ ExecuteInvalid => gcall.ret = -2 /\ ~gcall.engine_called
    /\ FindFirstNull =>
         /\ pcall.ret < 0
         /\ ~pcall.engine_called
         /\ pcall.result.valid # 1
    /\ FindFirstBadOffset =>
         /\ pcall.engine_called
         /\ pcall.ret = PCRE2_ERROR_BADOFFSET
         /\ pcall.result.valid = 0

\* C8 witness: pcre2_find_first was called on a complete handle with an
\* offset past the text, while a GNU search context is held as well
C8_Witness ==
    /\ FindFirstBadOffset
    /\ pcall.ret < 0
    /\ ~gctx.null

\* the handle held is absent, failed or complete, and owns the matching
\* blocks
HandleWellFormed ==
    \/ pctx.null /\ pheap = {}
    \/ /\ ~pctx.null
       /\ pctx.code.null
       /\ pctx.error_code # 0
       /\ ~pctx.match_data
       /\ ~pctx.match_context
       /\ pheap = {"ctx"}
    \/ /\ ~pctx.null
       /\ ~pctx.code.null
       /\ pctx.match_data
       /\ pctx.match_context
       /\ pheap = AllBlocks

\* the last search was handed an absent or failed handle
SearchOnBadHandle ==
    /\ pcall.op \in {"find_first", "find_all"}
    /\ ~pcre2_is_valid(pcall.h)

ScanState ==
    pcall.op = "find_all" =>
        /\ pcall.count <= pcall.max_results
        /\ Len(pcall.results) = pcall.count
        /\ \A i \in 1..Len(pcall.results) :
             /\ 0 <= pcall.results[i].start
             /\ pcall.results[i].start <= pcall.results[i].end
             /\ pcall.results[i].end <= pcall.text_len
             /\ i > 1 => pcall.results[i].start >= pcall.results[i - 1].end

\* an iteration that recorded a match moved the search offset forward
ScanStep ==
    (pcall.op = "find_all" /\ pcall'.op = "find_all"
        /\ pcall'.count > pcall.count) =>
        pcall'.offset > pcall.offset

\* C10: during and after a pcre2_find_all scan at most max_results spans are
\* recorded, each with 0 <= start <= end <= text_len and starting at or
\* after the end of the one before, and the search offset strictly
\* increases from one iteration to the next.
C10_ScanInvariant == [](ScanState) /\ [][ScanStep]_vars

\* C10 witness: a finished scan with three spans, an empty one among them
C10_Witness ==
    /\ pcall.op = "find_all"
    /\ pcall.pc = "done"
    /\ pcall.count = 3
    /\ pcall.results[2].start = pcall.results[2].end
    /\ pcall.results[3].end > pcall.results[3].start

====
